---- MODULE Spec2Model ----
(***************************************************************************)
(* Model of the ReunionAI client: the App shell (mode, transcripts, batch  *)
(* file processing, handleLiveUpdate) and the LiveSession component        *)
(* (startSession / stopSession / drawVisualizer and the callbacks handed   *)
(* to connectLiveSession).                                                 *)
(*                                                                         *)
(* Everything runs on one event loop, so every action below is one task    *)
(* (a click, a promise settling with the continuations it releases, a      *)
(* socket callback, an audio callback, an animation frame).                *)
(*                                                                         *)
(* A LiveSession instance is created each time the mode becomes LIVE and   *)
(* unmounted when it becomes UPLOAD; refs and state are per instance.      *)
(* Every call of startSession is an "attempt" with its own closure: the    *)
(* stream, context, source, analyzer, processor and session promise it     *)
(* created.  A ref holds the attempt whose object it points at, 0 = null.  *)
(***************************************************************************)
EXTENDS Integers, Sequences, FiniteSets, TLC

\* ---------------------------------------------------------------- bounds
MaxMounts == 2      \* LiveSession instances created (switches to LIVE)
MaxStarts == 2      \* calls of startSession over all instances
FewMounts == 1      \* the same two bounds in the specifications of one
FewStarts == 1      \*   pipeline at a time (SpecFrames, SpecReconcile)
MaxFrames == 3      \* audio frames delivered, over all attempts
MaxText   == 3      \* transcription chunks applied to the transcript
FewFrames == 2      \* the same two bounds in the specification of frames
FewText   == 2      \*   and events together (SpecOrder)

MaxSamples == 2     \* samples in one buffer given to float32ToInt16
MaxEvents  == 2     \* events in a list delivered to the reconciler twice

Insts    == 1..MaxMounts
Attempts == 1..MaxStarts

\* ---------------------------------------------------------------- values
Null     == "null"
MicError == "No se pudo acceder al microfono o conectar."
ApiError == "Error de conexion con la API en vivo."
FileError == "Ocurrio un error al procesar el archivo. Revisa tu API Key."

LiveSpeaker   == "En Vivo"
LiveGender    == "Desconocido"

\* Text is a sequence of words; string concatenation is \o.
Chunks == { <<"Hola">>, <<" mundo">> }

\* Wall-clock instants (seconds) read by new Date() when a segment is made.
ClockSamples == { 59, 3725 }

\* toLocaleTimeString([], {minute:'2-digit', second:'2-digit'}): MM:SS
toLocaleTimeString(sec) == << (sec \div 60) % 60, sec % 60 >>

\* Results the batch service can return for a file.
BatchResults ==
  { << >>,
    << [speaker |-> "Hablante 1", gender |-> "Masculino",
        timestamp |-> <<0, 0>>, text |-> <<"Buenos dias">>] >> }

\* Places where building the audio graph can throw after the microphone
\* was granted: new AudioContext, createMediaStreamSource, createScriptProcessor.
FailPoints == { "context", "source", "processor" }

\* No response has arrived, or it was consumed.
NoResponse == [kind |-> "none", value |-> << >>]

\* No message has been delivered yet.
NoMessage ==
  [from |-> 0, handled |-> TRUE,
   msg |-> [inputTx |-> FALSE, text |-> << >>, turnComplete |-> FALSE]]

VARIABLES
  \* App
  mode, transcripts, processing,
  \* LiveSession instances
  nMounts, cur, isActive, error,
  audioContextRef, mediaStreamRef, processorRef, sourceRef, sessionRef,
  analyzerRef, animationFrameRef,
  \* startSession attempts and the objects they created
  nStarts, owner, pc, stream, ctx, srcConn, procConn, session,
  pendingFrames, sent, captured, raf,
  \* observation (history) variables
  closeCalls, doubleRel, stopAt, sentAfterStop, preOpen, stopLen, evLog,
  \* the batch response that has arrived and is not yet consumed
  response,
  \* the service message the socket has delivered last
  inbox,
  \* arguments and results of the pure functions
  pcm, replay

\* Observation variables (no code reads them):
\*   closeCalls[a]     calls of close() on attempt a's session
\*   doubleRel         resources on which a release was repeated
\*   stopAt[a]         state of a's session when stopSession first ran on
\*                     its instance after a requested the connection
\*   sentAfterStop[a]  a frame was transmitted on a's session after that
\*   preOpen[a]        frames a captured while its connection was pending
\*   stopLen           number of segments when stopSession last ran
\*   evLog             texts applied by handleLiveUpdate since the transcript
\*                     was last empty (ok = nothing else has filled it),
\*                     and, where the sessions are told apart
\*                     (OnMessageNoted), the attempts whose events the
\*                     transcript holds
\* Pure functions:
\*   pcm               amplitudes given to float32ToInt16 and its result
\*   replay            one list of event texts delivered twice, with two
\*                     lists of turn-completion flags, and both transcripts

appVars  == << mode, transcripts, processing >>
instVars == << nMounts, cur, isActive, error >>
refVars  == << audioContextRef, mediaStreamRef, processorRef, sourceRef,
               sessionRef, analyzerRef, animationFrameRef >>
objVars  == << stream, ctx, srcConn, procConn, raf >>
attVars  == << nStarts, owner, pc >>
frameVars == << pendingFrames, sent, captured, preOpen, sentAfterStop >>
auxVars  == << response, inbox, pcm, replay >>
histVars == << closeCalls, doubleRel, stopAt, stopLen, evLog, auxVars >>

vars == << appVars, instVars, refVars, objVars, attVars, session, frameVars,
           histVars >>

\* ------------------------------------------------------------------ Init
InitProgram ==
  /\ mode = "UPLOAD"
  /\ transcripts = << >>
  /\ processing = [isProcessing |-> FALSE, error |-> Null]
  /\ nMounts = 0
  /\ cur = 0
  /\ isActive = [i \in Insts |-> FALSE]
  /\ error = [i \in Insts |-> Null]
  /\ audioContextRef = [i \in Insts |-> 0]
  /\ mediaStreamRef = [i \in Insts |-> 0]
  /\ processorRef = [i \in Insts |-> 0]
  /\ sourceRef = [i \in Insts |-> 0]
  /\ sessionRef = [i \in Insts |-> 0]
  /\ analyzerRef = [i \in Insts |-> 0]
  /\ animationFrameRef = [i \in Insts |-> 0]
  /\ nStarts = 0
  /\ owner = [a \in Attempts |-> 0]
  /\ pc = [a \in Attempts |-> "unused"]
  /\ stream = [a \in Attempts |-> "none"]
  /\ ctx = [a \in Attempts |-> "none"]
  /\ srcConn = [a \in Attempts |-> FALSE]
  /\ procConn = [a \in Attempts |-> FALSE]
  /\ session = [a \in Attempts |-> "none"]
  /\ pendingFrames = [a \in Attempts |-> << >>]
  /\ sent = [a \in Attempts |-> << >>]
  /\ captured = [a \in Attempts |-> 0]
  /\ raf = [a \in Attempts |-> FALSE]
  /\ closeCalls = [a \in Attempts |-> 0]
  /\ doubleRel = {}
  /\ stopAt = [a \in Attempts |-> "never"]
  /\ sentAfterStop = [a \in Attempts |-> FALSE]
  /\ preOpen = [a \in Attempts |-> 0]
  /\ stopLen = 0
  /\ evLog = [ok |-> TRUE, texts |-> << >>, by |-> {}]
  /\ response = NoResponse
  /\ inbox = NoMessage

NoPcm == [input |-> << >>, output |-> << >>, done |-> FALSE]

NoReplay == [texts |-> << >>, finalsA |-> << >>, finalsB |-> << >>,
             at |-> 0, a |-> << >>, b |-> << >>]

Init == InitProgram /\ pcm = NoPcm /\ replay = NoReplay

\* ------------------------------------------------- App: the reconciler
\* handleLiveUpdate's updater: append to the last segment when it carries
\* the live speaker label, otherwise push a new live segment stamped now.
NewLiveSegment(text, sec) ==
  [speaker |-> LiveSpeaker, gender |-> LiveGender,
   timestamp |-> toLocaleTimeString(sec), text |-> text]

\* Faulty variant: every event opens a new segment.
handleLiveUpdateAlwaysNew(prev, text, sec) ==
  Append(prev, NewLiveSegment(text, sec))

handleLiveUpdate(prev, text, sec) ==
  IF Len(prev) > 0 /\ prev[Len(prev)].speaker = LiveSpeaker
    THEN [prev EXCEPT ![Len(prev)].text = @ \o text]
    ELSE Append(prev, NewLiveSegment(text, sec))

\* Faulty variant: an event that completes a turn closes the segment.
onTranscriptionFinalSplits(prev, text, isFinal, sec) ==
  IF isFinal THEN handleLiveUpdateAlwaysNew(prev, text, sec)
             ELSE handleLiveUpdate(prev, text, sec)

\* LiveSession's callback (text, isFinal) => onTranscriptionUpdate(text),
\* with onTranscriptionUpdate = handleLiveUpdate: isFinal is not passed on.
onTranscription(prev, text, isFinal, sec) == handleLiveUpdate(prev, text, sec)

\* Words held by live segments: the quantity MaxText bounds.
RECURSIVE LiveWords(_)
LiveWords(segs) ==
  IF segs = << >> THEN 0
  ELSE (IF Head(segs).speaker = LiveSpeaker THEN Len(Head(segs).text) ELSE 0)
       + LiveWords(Tail(segs))

\* Concatenation of a sequence of texts, in order.
RECURSIVE Concat(_)
Concat(texts) ==
  IF texts = << >> THEN << >> ELSE Head(texts) \o Concat(Tail(texts))

\* ---------------------------------------------- App: batch file mode
\* What generateContent can answer: a JSON array, an empty body, a body
\* that is not JSON, or a failed request (also: API key missing).
Responses ==
  { [kind |-> "json", value |-> v] : v \in BatchResults }
    \cup { [kind |-> k, value |-> << >>] : k \in {"empty", "malformed", "failed"} }

\* transcribeAudioFile: [ok, segments]; ok = FALSE when it throws.
transcribeAudioFile(resp) ==
  CASE resp.kind = "failed"    -> [ok |-> FALSE, segments |-> << >>]
    [] resp.kind = "empty"     -> [ok |-> TRUE,  segments |-> << >>]
    [] resp.kind = "malformed" -> [ok |-> FALSE, segments |-> << >>]
    [] OTHER                   -> [ok |-> TRUE,  segments |-> resp.value]

liveVars == << instVars, refVars, objVars, attVars, session, frameVars,
               closeCalls, doubleRel, stopAt >>

\* handleFileProcess up to its await: FileUploader is only rendered in
\* UPLOAD mode and refuses a click while processing.
FileSelected ==
  /\ mode = "UPLOAD"
  /\ ~processing.isProcessing
  /\ processing' = [isProcessing |-> TRUE, error |-> Null]
  /\ transcripts' = << >>
  /\ evLog' = [ok |-> TRUE, texts |-> << >>, by |-> {}]
  /\ stopLen' = 0
  /\ UNCHANGED << mode, liveVars, auxVars >>

\* handleFileProcess after its await, given what generateContent answered:
\* transcribeAudioFile returns or throws, then the try or the catch branch
\* runs.  The mode may have changed meanwhile.
Settle(resp) ==
  /\ LET r == transcribeAudioFile(resp) IN
     IF r.ok
       THEN /\ transcripts' = r.segments
            /\ processing' = [isProcessing |-> FALSE, error |-> Null]
            /\ evLog' = [ok |-> r.segments = << >>, texts |-> << >>,
                         by |-> {}]
            /\ stopLen' = 0
       ELSE /\ processing' = [isProcessing |-> FALSE, error |-> FileError]
            /\ UNCHANGED << transcripts, evLog, stopLen >>
  /\ UNCHANGED << mode, liveVars, inbox, pcm, replay >>

\* The request settles and handleFileProcess continues, in one task.
FileSettled ==
  /\ processing.isProcessing
  /\ response = NoResponse
  /\ \E resp \in Responses : Settle(resp)
  /\ UNCHANGED response

\* The same in two steps, with the response in between: generateContent
\* settles and its answer reaches transcribeAudioFile ...
FileResponds ==
  /\ processing.isProcessing
  /\ response = NoResponse
  /\ response' \in Responses
  /\ UNCHANGED << appVars, liveVars, evLog, stopLen, inbox, pcm, replay >>

\* ... which parses it, and handleFileProcess continues.
FileContinues ==
  /\ processing.isProcessing
  /\ response # NoResponse
  /\ Settle(response)
  /\ response' = NoResponse

\* ------------------------------------------- LiveSession: state setters
\* A state update on an unmounted instance is discarded by React.
SetIsActive(i, v) == IF cur = i THEN [isActive EXCEPT ![i] = v] ELSE isActive
SetError(i, v)    == IF cur = i THEN [error EXCEPT ![i] = v] ELSE error

\* ref.current = a
SetRef(ref, i, a) == [ref EXCEPT ![i] = a]

\* ------------------------------------------------ LiveSession: stopSession
\* Release the object a ref points at and null the ref; the session ref is
\* only nulled; the animation frame ref is cancelled but kept.
Released(objs, ref, i, val) ==
  [a \in Attempts |-> IF ref[i] = a THEN val ELSE objs[a]]

ReReleases(i) ==
  (IF processorRef[i] # 0 /\ ~procConn[processorRef[i]] THEN {"processor"} ELSE {})
  \cup (IF sourceRef[i] # 0 /\ ~srcConn[sourceRef[i]] THEN {"source"} ELSE {})
  \cup (IF mediaStreamRef[i] # 0 /\ stream[mediaStreamRef[i]] = "stopped"
          THEN {"tracks"} ELSE {})
  \cup (IF audioContextRef[i] # 0 /\ ctx[audioContextRef[i]] = "closed"
          THEN {"context"} ELSE {})
  \cup (IF animationFrameRef[i] # 0 /\ ~raf[animationFrameRef[i]]
          THEN {"raf"} ELSE {})

stopSession(i) ==
  /\ isActive' = SetIsActive(i, FALSE)
  /\ procConn' = Released(procConn, processorRef, i, FALSE)
  /\ processorRef' = SetRef(processorRef, i, 0)
  /\ srcConn' = Released(srcConn, sourceRef, i, FALSE)
  /\ sourceRef' = SetRef(sourceRef, i, 0)
  /\ stream' = Released(stream, mediaStreamRef, i, "stopped")
  /\ mediaStreamRef' = SetRef(mediaStreamRef, i, 0)
  /\ ctx' = Released(ctx, audioContextRef, i, "closed")
  /\ audioContextRef' = SetRef(audioContextRef, i, 0)
  /\ sessionRef' = SetRef(sessionRef, i, 0)
  /\ raf' = Released(raf, animationFrameRef, i, FALSE)
  /\ doubleRel' = doubleRel \cup ReReleases(i)
  /\ stopAt' = [a \in Attempts |->
                  IF owner[a] = i /\ stopAt[a] = "never" /\ session[a] # "none"
                    THEN session[a] ELSE stopAt[a]]
  /\ stopLen' = Len(transcripts)
  /\ UNCHANGED << analyzerRef, animationFrameRef, closeCalls >>

\* The operations one call of stopSession performs on the objects its refs
\* hold, in program order; a step whose ref is null is skipped.  The session
\* is forgotten (sessionRef.current = null), never closed.
OpIf(cond, op) == IF cond THEN << op >> ELSE << >>

StopOps(i) ==
  << "setInactive" >>
    \o OpIf(processorRef[i] # 0, "disconnectProcessor")
    \o OpIf(sourceRef[i] # 0, "disconnectSource")
    \o OpIf(mediaStreamRef[i] # 0, "stopTracks")
    \o OpIf(audioContextRef[i] # 0, "closeContext")
    \o OpIf(sessionRef[i] # 0, "forgetSession")
    \o OpIf(animationFrameRef[i] # 0, "cancelAnimationFrame")

\* ---------------------------------------------- App: the mode buttons
SetModeLiveUpTo(n) ==
  /\ mode = "UPLOAD"
  /\ nMounts < n
  /\ mode' = "LIVE"
  /\ nMounts' = nMounts + 1
  /\ cur' = nMounts + 1
  /\ UNCHANGED << transcripts, processing, isActive, error, refVars, objVars,
                  attVars, session, frameVars, histVars >>

SetModeLive == SetModeLiveUpTo(MaxMounts)

\* Leaving LIVE unmounts the instance: the effect cleanup runs stopSession.
SetModeUpload ==
  /\ mode = "LIVE"
  /\ mode' = "UPLOAD"
  /\ stopSession(cur)
  /\ cur' = 0
  /\ error' = [error EXCEPT ![cur] = Null]
  /\ UNCHANGED << transcripts, processing, nMounts, attVars, session,
                  frameVars, evLog, auxVars >>

\* The button shows "Detener" only while isActive.
StopClick ==
  /\ cur # 0
  /\ isActive[cur]
  /\ stopSession(cur)
  /\ UNCHANGED << appVars, nMounts, cur, error, attVars, session, frameVars,
                  evLog, auxVars >>

\* ------------------------------------------------ LiveSession: startSession
\* The button shows "Iniciar" whenever isActive is false, also while an
\* earlier call is still waiting for the microphone or the connection.
StartClickUpTo(n) ==
  /\ cur # 0
  /\ ~isActive[cur]
  /\ nStarts < n
  /\ nStarts' = nStarts + 1
  /\ owner' = [owner EXCEPT ![nStarts + 1] = cur]
  /\ pc' = [pc EXCEPT ![nStarts + 1] = "awaitMic"]
  /\ error' = SetError(cur, Null)
  /\ UNCHANGED << appVars, nMounts, cur, isActive, refVars, objVars, session,
                  frameVars, histVars >>

StartClick == StartClickUpTo(MaxStarts)

\* Faulty variant: the catch block only logs.
startSessionCatchSilent(i) == error

\* startSession's catch block: console.error(err); setError(...).
startSessionCatch(i) == SetError(i, MicError)

\* getUserMedia rejects: the catch block sets the error and nothing else.
MicDenied(a) ==
  /\ pc[a] = "awaitMic"
  /\ pc' = [pc EXCEPT ![a] = "failed"]
  /\ error' = startSessionCatch(owner[a])
  /\ UNCHANGED << appVars, nMounts, cur, isActive, refVars, objVars, nStarts,
                  owner, session, frameVars, histVars >>

\* getUserMedia resolves and a later constructor throws at point p: the
\* refs assigned before p keep their objects, the catch block sets the error.
GraphBuildFails(a, p) ==
  LET i == owner[a] IN
  /\ pc[a] = "awaitMic"
  /\ pc' = [pc EXCEPT ![a] = "failed"]
  /\ stream' = [stream EXCEPT ![a] = "live"]
  /\ mediaStreamRef' = SetRef(mediaStreamRef, i, a)
  /\ IF p \in {"source", "processor"}
       THEN /\ ctx' = [ctx EXCEPT ![a] = "running"]
            /\ audioContextRef' = SetRef(audioContextRef, i, a)
       ELSE UNCHANGED << ctx, audioContextRef >>
  /\ IF p = "processor"
       THEN /\ srcConn' = [srcConn EXCEPT ![a] = TRUE]
            /\ sourceRef' = SetRef(sourceRef, i, a)
            /\ analyzerRef' = SetRef(analyzerRef, i, a)
       ELSE UNCHANGED << srcConn, sourceRef, analyzerRef >>
  /\ error' = startSessionCatch(i)
  /\ UNCHANGED << appVars, nMounts, cur, isActive, processorRef, sessionRef,
                  animationFrameRef, procConn, raf, nStarts, owner, session,
                  frameVars, histVars >>

\* drawVisualizer returns early without a canvas (the instance is unmounted);
\* otherwise draw() requests the first animation frame.
drawVisualizerRuns(i) == cur = i

\* getUserMedia resolves and the rest of the try block runs to its end:
\* every ref is overwritten with this attempt's objects, the connection is
\* requested (not awaited), the graph is connected, the render loop starts.
MicGranted(a) ==
  LET i == owner[a] IN
  /\ pc[a] = "awaitMic"
  /\ pc' = [pc EXCEPT ![a] = "started"]
  /\ stream' = [stream EXCEPT ![a] = "live"]
  /\ mediaStreamRef' = SetRef(mediaStreamRef, i, a)
  /\ ctx' = [ctx EXCEPT ![a] = "running"]
  /\ audioContextRef' = SetRef(audioContextRef, i, a)
  /\ srcConn' = [srcConn EXCEPT ![a] = TRUE]
  /\ sourceRef' = SetRef(sourceRef, i, a)
  /\ analyzerRef' = SetRef(analyzerRef, i, a)
  /\ procConn' = [procConn EXCEPT ![a] = TRUE]
  /\ processorRef' = SetRef(processorRef, i, a)
  /\ session' = [session EXCEPT ![a] = "pending"]
  /\ IF drawVisualizerRuns(i)
       THEN /\ raf' = [raf EXCEPT ![a] = TRUE]
            /\ animationFrameRef' = SetRef(animationFrameRef, i, a)
       ELSE UNCHANGED << raf, animationFrameRef >>
  /\ UNCHANGED << appVars, instVars, sessionRef, nStarts, owner, frameVars,
                  histVars >>

\* ------------------------------------------- the session promise settles
\* The continuations registered by sessionPromise.then, one per frame
\* captured so far, run in registration order: each sends its frame.
\* Faulty variant: the frames waiting at resolution are dropped.
FlushDropsPending(sentSoFar, pending) == sentSoFar

\* Faulty variant: the waiting continuations run last-registered first.
RECURSIVE Reversed(_)
Reversed(q) == IF q = << >> THEN << >> ELSE Append(Reversed(Tail(q)), Head(q))

FlushReversesPending(sentSoFar, pending) == sentSoFar \o Reversed(pending)

FlushPending(sentSoFar, pending) == sentSoFar \o pending

\* The socket opens: onOpen runs, connectLiveSession resolves.
ConnectResolve(a) ==
  LET i == owner[a] IN
  /\ session[a] = "pending"
  /\ session' = [session EXCEPT ![a] = "open"]
  /\ isActive' = SetIsActive(i, TRUE)
  /\ sent' = [sent EXCEPT ![a] = FlushPending(sent[a], pendingFrames[a])]
  /\ pendingFrames' = [pendingFrames EXCEPT ![a] = << >>]
  /\ sessionRef' = IF pendingFrames[a] # << >>
                     THEN SetRef(sessionRef, i, a) ELSE sessionRef
  /\ sentAfterStop' = [sentAfterStop EXCEPT ![a] =
                         @ \/ (pendingFrames[a] # << >> /\ stopAt[a] # "never")]
  /\ UNCHANGED << appVars, nMounts, cur, error, audioContextRef,
                  mediaStreamRef, processorRef, sourceRef, analyzerRef,
                  animationFrameRef, objVars, attVars, captured, preOpen,
                  histVars >>

\* Faulty variant: the handler shows the failure.
SendFailureSurfaced(i) == SetError(i, ApiError)

\* .catch(e => console.error("Session not ready", e)) on a frame's send:
\* the failure is logged and the error state stays as it is.
SendFailureLogged(i) == error

\* connectLiveSession rejects (API key missing, connect failed).  Nothing
\* awaits the promise: only the per-frame catch handlers see it, and log.
ConnectReject(a) ==
  /\ session[a] = "pending"
  /\ session' = [session EXCEPT ![a] = "rejected"]
  /\ pendingFrames' = [pendingFrames EXCEPT ![a] = << >>]
  /\ error' = IF pendingFrames[a] # << >>
                THEN SendFailureLogged(owner[a]) ELSE error
  /\ UNCHANGED << appVars, nMounts, cur, isActive, refVars, objVars, attVars,
                  sent, captured, preOpen, sentAfterStop, histVars >>

\* ---------------------------------------------- processor.onaudioprocess
\* The processor fires while it is connected in a running context.
Delivering(a) == pc[a] = "started" /\ procConn[a] /\ ctx[a] = "running"

RECURSIVE SumTo(_, _)
SumTo(f, n) == IF n = 0 THEN 0 ELSE f[n] + SumTo(f, n - 1)

FramesDelivered == SumTo(captured, MaxStarts)

AudioProcessUpTo(a, n) ==
  LET i == owner[a]
      f == captured[a] + 1 IN
  /\ Delivering(a)
  /\ FramesDelivered < n
  /\ captured' = [captured EXCEPT ![a] = f]
  /\ CASE session[a] = "pending" ->
            /\ pendingFrames' = [pendingFrames EXCEPT ![a] = Append(@, f)]
            /\ preOpen' = [preOpen EXCEPT ![a] = @ + 1]
            /\ UNCHANGED << sent, sessionRef, sentAfterStop, error >>
       [] session[a] = "open" ->
            /\ sessionRef' = SetRef(sessionRef, i, a)
            /\ sent' = [sent EXCEPT ![a] = Append(@, f)]
            /\ sentAfterStop' = [sentAfterStop EXCEPT ![a] =
                                   @ \/ stopAt[a] # "never"]
            /\ UNCHANGED << pendingFrames, preOpen, error >>
       [] session[a] = "rejected" ->
            /\ error' = SendFailureLogged(i)
            /\ UNCHANGED << pendingFrames, preOpen, sent, sessionRef,
                            sentAfterStop >>
       [] OTHER ->
            \* resolved but the socket is gone: the ref is set, the send fails
            /\ sessionRef' = SetRef(sessionRef, i, a)
            /\ error' = SendFailureLogged(i)
            /\ UNCHANGED << pendingFrames, preOpen, sent, sentAfterStop >>
  /\ UNCHANGED << appVars, nMounts, cur, isActive, audioContextRef,
                  mediaStreamRef,
                  processorRef, sourceRef, analyzerRef, animationFrameRef,
                  objVars, attVars, session, histVars >>

AudioProcess(a) == AudioProcessUpTo(a, MaxFrames)

\* ---------------------------------------------------- session callbacks
\* Server messages: inputTranscription absent, or present with a text.
Messages ==
  { [inputTx |-> FALSE, text |-> << >>, turnComplete |-> f] : f \in BOOLEAN }
    \cup { [inputTx |-> TRUE, text |-> t, turnComplete |-> f] :
             t \in Chunks \cup { << >> }, f \in BOOLEAN }

\* Faulty variant: every input transcription goes through.
ForwardsAnyTranscription(msg) == msg.inputTx

\* onmessage's filter: a transcription with a non-empty text goes through.
Forwards(msg) == msg.inputTx /\ msg.text # << >>

\* onmessage(msg) on attempt a's session: a message that passes the filter
\* goes onTranscription(text, isFinal) -> onTranscriptionUpdate(text) ->
\* handleLiveUpdate(text); any other message is dropped.  The App is always
\* mounted.
Receive(a, msg, by) ==
  IF Forwards(msg)
    THEN /\ transcripts' \in
              { onTranscription(transcripts, msg.text, msg.turnComplete, sec) :
                  sec \in ClockSamples }
         /\ evLog' = [evLog EXCEPT
                        !.texts = IF evLog.ok THEN Append(@, msg.text) ELSE @,
                        !.by = by]
    ELSE UNCHANGED << transcripts, evLog >>

\* The socket delivers a message and onmessage runs, in one task.
Listen(a, n, by) ==
  /\ session[a] = "open"
  /\ \E msg \in Messages :
       /\ Forwards(msg) => LiveWords(transcripts) < n
       /\ Receive(a, msg, by)
  /\ UNCHANGED << mode, processing, liveVars, stopLen, auxVars >>

OnMessageUpTo(a, n) == Listen(a, n, evLog.by)

\* The same, noting in evLog.by which session the event came from.
OnMessageNoted(a, n) == Listen(a, n, evLog.by \cup {a})

\* The same in two steps, with the message in between: the socket delivers
\* a message ...
MessageArrives(a, n) ==
  /\ session[a] = "open"
  /\ inbox.handled
  /\ \E msg \in Messages :
       /\ Forwards(msg) => LiveWords(transcripts) < n
       /\ inbox' = [from |-> a, handled |-> FALSE, msg |-> msg]
  /\ UNCHANGED << appVars, liveVars, evLog, stopLen, response, pcm, replay >>

\* ... and onmessage runs on it.
MessageHandled ==
  /\ ~inbox.handled
  /\ Receive(inbox.from, inbox.msg, evLog.by)
  /\ inbox' = [inbox EXCEPT !.handled = TRUE]
  /\ UNCHANGED << mode, processing, liveVars, stopLen, response, pcm, replay >>

OnMessage(a) == OnMessageUpTo(a, MaxText)

\* onerror on an open session: the error is shown and stopSession runs.
OnError(a) ==
  LET i == owner[a] IN
  /\ session[a] = "open"
  /\ session' = [session EXCEPT ![a] = "errored"]
  /\ error' = SetError(i, ApiError)
  /\ stopSession(i)
  /\ UNCHANGED << appVars, nMounts, cur, attVars, frameVars, evLog,
                  auxVars >>

\* onclose: the service (or the broken transport) ended the session.
OnClose(a) ==
  /\ session[a] \in {"open", "errored"}
  /\ session' = [session EXCEPT ![a] = "ended"]
  /\ isActive' = SetIsActive(owner[a], FALSE)
  /\ UNCHANGED << appVars, nMounts, cur, error, refVars, objVars, attVars,
                  frameVars, histVars >>

\* ------------------------------------------------ drawVisualizer: draw()
\* A scheduled frame runs: it requests the next one and overwrites the ref.
RenderFrame(a) ==
  /\ raf[a]
  /\ animationFrameRef' = SetRef(animationFrameRef, owner[a], a)
  /\ UNCHANGED << appVars, instVars, audioContextRef, mediaStreamRef,
                  processorRef, sourceRef, sessionRef, analyzerRef, objVars,
                  attVars, session, frameVars, histVars >>

\* ------------------------------------------------------------------ Next
\* The capture pipeline: mounting, starting, stopping, the connection, the
\* audio frames and the render loop.  None of these reads the transcript.
NextCapture ==
  \/ SetModeLive
  \/ SetModeUpload
  \/ StartClick
  \/ StopClick
  \/ \E a \in Attempts : MicDenied(a)
  \/ \E a \in Attempts, p \in FailPoints : GraphBuildFails(a, p)
  \/ \E a \in Attempts : MicGranted(a)
  \/ \E a \in Attempts : ConnectResolve(a)
  \/ \E a \in Attempts : ConnectReject(a)
  \/ \E a \in Attempts : AudioProcess(a)
  \/ \E a \in Attempts : OnError(a)
  \/ \E a \in Attempts : OnClose(a)
  \/ \E a \in Attempts : RenderFrame(a)

SpecCapture == Init /\ [][NextCapture]_vars

\* One pipeline at a time: the same actions with a single start and mount.
NextFrames ==
  \/ SetModeLiveUpTo(FewMounts)
  \/ SetModeUpload
  \/ StartClickUpTo(FewStarts)
  \/ StopClick
  \/ \E a \in Attempts : MicDenied(a)
  \/ \E a \in Attempts, p \in FailPoints : GraphBuildFails(a, p)
  \/ \E a \in Attempts : MicGranted(a)
  \/ \E a \in Attempts : ConnectResolve(a)
  \/ \E a \in Attempts : ConnectReject(a)
  \/ \E a \in Attempts : AudioProcess(a)
  \/ \E a \in Attempts : OnError(a)
  \/ \E a \in Attempts : OnClose(a)
  \/ \E a \in Attempts : RenderFrame(a)

SpecFrames == Init /\ [][NextFrames]_vars

\* The transcript: the session lifecycle with its transcription events and
\* the batch file processing.  Audio frames and animation frames, which
\* never touch the transcript, are left to the specifications above.
NextReconcile ==
  \/ SetModeLiveUpTo(FewMounts)
  \/ SetModeUpload
  \/ FileSelected
  \/ FileSettled
  \/ StartClickUpTo(FewStarts)
  \/ StopClick
  \/ \E a \in Attempts : MicDenied(a)
  \/ \E a \in Attempts : MicGranted(a)
  \/ \E a \in Attempts : ConnectResolve(a)
  \/ \E a \in Attempts : ConnectReject(a)
  \/ \E a \in Attempts : OnMessage(a)
  \/ \E a \in Attempts : OnError(a)
  \/ \E a \in Attempts : OnClose(a)

SpecReconcile == Init /\ [][NextReconcile]_vars

\* Frames and transcription events together on an instance that stays
\* mounted: the session lifecycle with the audio callback and the message
\* callback.  Unmounting is covered by the specifications above.
NextOrder ==
  \/ SetModeLiveUpTo(FewMounts)
  \/ StartClickUpTo(FewStarts)
  \/ StopClick
  \/ \E a \in Attempts : MicDenied(a)
  \/ \E a \in Attempts : MicGranted(a)
  \/ \E a \in Attempts : ConnectResolve(a)
  \/ \E a \in Attempts : ConnectReject(a)
  \/ \E a \in Attempts : AudioProcessUpTo(a, FewFrames)
  \/ \E a \in Attempts : OnMessageUpTo(a, FewText)
  \/ \E a \in Attempts : OnError(a)
  \/ \E a \in Attempts : OnClose(a)

SpecOrder == Init /\ [][NextOrder]_vars

\* Batch file processing with the service's answer observable between its
\* arrival and handleFileProcess's continuation, beside the session
\* lifecycle (without audio frames and transcription events).
NextBatch ==
  \/ SetModeLiveUpTo(FewMounts)
  \/ SetModeUpload
  \/ FileSelected
  \/ FileResponds
  \/ FileContinues
  \/ StartClickUpTo(FewStarts)
  \/ StopClick
  \/ \E a \in Attempts : MicDenied(a)
  \/ \E a \in Attempts : MicGranted(a)
  \/ \E a \in Attempts : ConnectResolve(a)
  \/ \E a \in Attempts : ConnectReject(a)
  \/ \E a \in Attempts : OnError(a)
  \/ \E a \in Attempts : OnClose(a)

SpecBatch == Init /\ [][NextBatch]_vars

\* ------------------------------------------ audioUtils: float32ToInt16
\* An amplitude is a rational n / AmpDen, held as its numerator n.  The
\* product of a Float32 value and a 15- or 16-bit scale is exact in double
\* precision, so exact arithmetic gives what the code computes.  AmpDen
\* exceeds both scales, so that products of either sign have fractions.
AmpDen == 40000

ScaleNeg == 32768    \* 0x8000
ScalePos == 32767    \* 0x7FFF
TwoTo16  == 65536    \* Int16Array elements are stored modulo 2^16

\* Amplitudes below, at and above the clamping limits, next to zero, and
\* in between.
Samples ==
  { -AmpDen - (AmpDen \div 2), -AmpDen - 1, -AmpDen, -AmpDen + 1,
    -(AmpDen \div 2) - 1, -3, -1, 0, 1, 3, (AmpDen \div 2) + 1,
    AmpDen - 1, AmpDen, AmpDen + 1, AmpDen + (AmpDen \div 2) }

\* Faulty variant: no clamping.
ClampNone(n) == n

\* Math.max(-1, Math.min(1, x))
Clamp(n) == IF n > AmpDen THEN AmpDen ELSE IF n < -AmpDen THEN -AmpDen ELSE n

\* Faulty variant: both signs scaled by 0x8000.
ScaleSymmetric(n) == n * ScaleNeg

\* s < 0 ? s * 0x8000 : s * 0x7FFF, as a numerator over AmpDen
Scale(n) == IF n < 0 THEN n * ScaleNeg ELSE n * ScalePos

\* Storing a number into an Int16Array: the fraction is dropped (towards
\* zero), the integer is reduced modulo 2^16 into [-2^15, 2^15).
Trunc(x, d) == IF x >= 0 THEN x \div d ELSE -((-x) \div d)

ToInt16(v) == ((v + (TwoTo16 \div 2)) % TwoTo16) - (TwoTo16 \div 2)

EncodeSample(n) == ToInt16(Trunc(Scale(Clamp(n)), AmpDen))

float32ToInt16(float32Array) ==
  [k \in 1..Len(float32Array) |-> EncodeSample(float32Array[k])]

SeqsUpTo(S, n) == UNION { [1..m -> S] : m \in 0..n }

programVars == << appVars, instVars, refVars, objVars, attVars, session,
                  frameVars, closeCalls, doubleRel, stopAt, stopLen, evLog,
                  response, inbox >>

InitEncode ==
  /\ InitProgram
  /\ replay = NoReplay
  /\ pcm \in { [input |-> q, output |-> << >>, done |-> FALSE] :
                 q \in SeqsUpTo(Samples, MaxSamples) }

Encode ==
  /\ ~pcm.done
  /\ pcm' = [pcm EXCEPT !.output = float32ToInt16(pcm.input), !.done = TRUE]
  /\ UNCHANGED << programVars, replay >>

NextEncode == Encode

SpecEncode == InitEncode /\ [][NextEncode]_vars

\* ------------------------------------- one event list, two flag lists
\* The same texts are delivered to two transcripts that start equal, each
\* event with the turn-completion flag of its own list.
Replays ==
  UNION { { [texts |-> t, finalsA |-> fa, finalsB |-> fb, at |-> 0,
             a |-> start, b |-> start] :
              t \in [1..m -> Chunks], fa \in [1..m -> BOOLEAN],
              fb \in [1..m -> BOOLEAN], start \in BatchResults } :
          m \in 0..MaxEvents }

InitHint ==
  /\ InitProgram
  /\ pcm = NoPcm
  /\ replay \in Replays

Deliver ==
  LET k == replay.at + 1 IN
  /\ replay.at < Len(replay.texts)
  /\ \E secA, secB \in ClockSamples :
       replay' = [replay EXCEPT
                    !.at = k,
                    !.a = onTranscription(@, replay.texts[k],
                                          replay.finalsA[k], secA),
                    !.b = onTranscription(@, replay.texts[k],
                                          replay.finalsB[k], secB)]
  /\ UNCHANGED << programVars, pcm >>

NextHint == Deliver

SpecHint == InitHint /\ [][NextHint]_vars

\* Sessions one after the other and side by side with their transcription
\* events: every mount and every start, without audio and animation frames
\* and without batch processing.
NextRestart ==
  \/ SetModeLive
  \/ SetModeUpload
  \/ StartClick
  \/ StopClick
  \/ \E a \in Attempts : MicDenied(a)
  \/ \E a \in Attempts : MicGranted(a)
  \/ \E a \in Attempts : ConnectResolve(a)
  \/ \E a \in Attempts : ConnectReject(a)
  \/ \E a \in Attempts : OnMessageNoted(a, FewText)
  \/ \E a \in Attempts : OnError(a)
  \/ \E a \in Attempts : OnClose(a)

SpecRestart == Init /\ [][NextRestart]_vars

\* The session lifecycle on an instance that stays mounted, with the
\* message the socket delivered observable between its delivery and the run
\* of onmessage.
NextFilter ==
  \/ SetModeLiveUpTo(FewMounts)
  \/ StartClickUpTo(FewStarts)
  \/ StopClick
  \/ \E a \in Attempts : MicDenied(a)
  \/ \E a \in Attempts : MicGranted(a)
  \/ \E a \in Attempts : ConnectResolve(a)
  \/ \E a \in Attempts : ConnectReject(a)
  \/ \E a \in Attempts : MessageArrives(a, FewText)
  \/ MessageHandled
  \/ \E a \in Attempts : OnError(a)
  \/ \E a \in Attempts : OnClose(a)

SpecFilter == Init /\ [][NextFilter]_vars

\* The transcript on an instance that stays mounted: batch processing
\* requested before the switch to LIVE, settling before or during the
\* session, and the session's transcription events.
NextSegment ==
  \/ SetModeLiveUpTo(FewMounts)
  \/ FileSelected
  \/ FileSettled
  \/ StartClickUpTo(FewStarts)
  \/ StopClick
  \/ \E a \in Attempts : MicDenied(a)
  \/ \E a \in Attempts : MicGranted(a)
  \/ \E a \in Attempts : ConnectResolve(a)
  \/ \E a \in Attempts : ConnectReject(a)
  \/ \E a \in Attempts : OnMessage(a)
  \/ \E a \in Attempts : OnError(a)
  \/ \E a \in Attempts : OnClose(a)

SpecSegment == Init /\ [][NextSegment]_vars

\* The audio callback on an instance that stays mounted: frames sent,
\* waiting, and failing on a rejected or ended session.
NextSend ==
  \/ SetModeLiveUpTo(FewMounts)
  \/ StartClickUpTo(FewStarts)
  \/ StopClick
  \/ \E a \in Attempts : MicDenied(a)
  \/ \E a \in Attempts : MicGranted(a)
  \/ \E a \in Attempts : ConnectResolve(a)
  \/ \E a \in Attempts : ConnectReject(a)
  \/ \E a \in Attempts : AudioProcess(a)
  \/ \E a \in Attempts : OnError(a)
  \/ \E a \in Attempts : OnClose(a)

SpecSend == Init /\ [][NextSend]_vars

\* ======================================================== properties
OpenedEver(a) == session[a] \in {"open", "errored", "ended"}

\* No part of a capture graph created for instance i is still alive.
NoGraph(i) ==
  \A b \in Attempts :
    owner[b] = i =>
      /\ ~procConn[b]
      /\ ~srcConn[b]
      /\ stream[b] # "live"
      /\ ctx[b] # "running"

LoopRunning(i) == \E b \in Attempts : owner[b] = i /\ raf[b]

RefsNull(i) ==
  /\ processorRef[i] = 0
  /\ sourceRef[i] = 0
  /\ mediaStreamRef[i] = 0
  /\ audioContextRef[i] = 0

FirstN(n) == [k \in 1..n |-> k]

IsPrefix(s, t) == Len(s) <= Len(t) /\ SubSeq(t, 1, Len(s)) = s

C2_StopWhilePendingClosesSession ==
  \A a \in Attempts :
    (stopAt[a] = "pending" /\ OpenedEver(a)) =>
      /\ closeCalls[a] = 1
      /\ sessionRef[owner[a]] # a
      /\ ~sentAfterStop[a]

\* C3: once stopSession has run on an opened session, close() has been
\* called on that session exactly once.
C3_ClosedExactlyOnce ==
  \A a \in Attempts :
    stopAt[a] \in {"open", "errored", "ended"} => closeCalls[a] = 1

\* C4: a transport error on an open session that is receiving frames shows
\* the API error, clears isActive and leaves no capture graph of the
\* instance alive, with every graph ref null, so that start is offered again.
C4_TransportErrorTearsDown ==
  [][ \A a \in Attempts :
        (session[a] = "open" /\ session'[a] = "errored"
           /\ cur = owner[a] /\ Delivering(a)) =>
          /\ error'[owner[a]] = ApiError
          /\ ~isActive'[owner[a]]
          /\ RefsNull(owner[a])'
          /\ NoGraph(owner[a])' ]_vars

\* C5: when the connection is rejected after the microphone was acquired,
\* an error is shown and stream, context, graph and render loop are released.
C5_OpenFailureSurfaced ==
  [][ \A a \in Attempts :
        (session[a] = "pending" /\ session'[a] = "rejected"
           /\ cur = owner[a]) =>
          /\ error'[owner[a]] # Null
          /\ NoGraph(owner[a])'
          /\ ~LoopRunning(owner[a])' ]_vars

\* C6: no call of stopSession performs a release (disconnect, track stop,
\* context close, animation-frame cancel) on something already released.
C6_StopIdempotent == doubleRel = {}

\* C7: right after any core failure of the mounted instance (microphone
\* denied, graph construction failed, connection rejected, transport error)
\* isActive is false, an error is set and nothing is still held.
C7_FailureFullyStops ==
  [][ \A a \in Attempts :
        (cur = owner[a] /\
           \/ pc[a] = "awaitMic" /\ pc'[a] = "failed"
           \/ session[a] = "pending" /\ session'[a] = "rejected"
           \/ session[a] = "open" /\ session'[a] = "errored") =>
          /\ ~isActive'[owner[a]]
          /\ error'[owner[a]] # Null
          /\ NoGraph(owner[a])'
          /\ ~LoopRunning(owner[a])' ]_vars

Grows(t1, t2) ==
  /\ Len(t1) <= Len(t2)
  /\ \A k \in 1..Len(t1) :
       /\ t2[k].speaker = t1[k].speaker
       /\ t2[k].gender = t1[k].gender
       /\ t2[k].timestamp = t1[k].timestamp
       /\ IsPrefix(t1[k].text, t2[k].text)

\* C9: while the mounted live session is active, every step only grows
\* the transcript.
C9_TranscriptOnlyGrows ==
  [][ (cur # 0 /\ isActive[cur]) => Grows(transcripts, transcripts') ]_vars

\* C10: no transcription event (a step that is not file processing) changes
\* the text of a segment that existed when stopSession last ran.  Segments
\* are never reordered, so these are the first stopLen segments.
C10_FrozenAfterStop ==
  [][ processing' = processing =>
        \A k \in 1..stopLen :
          /\ k <= Len(transcripts')
          /\ transcripts'[k].text = transcripts[k].text ]_vars

Increasing(q) == \A j, k \in 1..Len(q) : j < k => q[j] < q[k]

\* C11: the frames transmitted on a session, followed by the frames still
\* waiting for it, are in capture order; and the text of the live segment
\* is the concatenation of the event texts in the order they were emitted.
C11_OrderPreserved ==
  /\ \A a \in Attempts : Increasing(sent[a] \o pendingFrames[a])
  /\ (evLog.ok /\ evLog.texts # << >>) =>
        transcripts[Len(transcripts)].text = Concat(evLog.texts)

\* Two frames waited for the connection and were sent when it opened, and
\* two different events were applied.
C11_Witness ==
  /\ \E a \in Attempts :
        preOpen[a] = 2 /\ captured[a] = 2 /\ sent[a] = <<1, 2>>
  /\ evLog.texts = << <<"Hola">>, <<" mundo">> >>
  /\ transcripts[1].text = <<"Hola", " mundo">>

\* C12: a stop of a running pipeline (every ref set, the session stored)
\* performs six steps in this order: stop frame delivery, disconnect the
\* processing graph, release the tracks, release the audio context, close
\* the session handle, cancel the visualizer loop.
C12_TeardownOrder ==
  [][ \A i \in Insts :
        (processorRef[i] # 0 /\ processorRef'[i] = 0 /\ sourceRef[i] # 0
           /\ mediaStreamRef[i] # 0 /\ audioContextRef[i] # 0
           /\ sessionRef[i] # 0 /\ animationFrameRef[i] # 0) =>
          /\ StopOps(i) = << "setInactive", "disconnectProcessor",
                             "disconnectSource", "stopTracks", "closeContext",
                             "closeSession", "cancelAnimationFrame" >>
          /\ closeCalls'[sessionRef[i]] = closeCalls[sessionRef[i]] + 1 ]_vars

\* C13: a scheduled render callback always belongs to a running audio
\* context (stopSession cancels the loop when it closes the context), and a
\* step that cancels a render callback of an instance leaves none of that
\* instance scheduled.
C13_NoDanglingRenderLoop ==
  [][ /\ \A a \in Attempts : raf'[a] => ctx'[a] = "running"
      /\ \A a \in Attempts :
           (raf[a] /\ ~raf'[a]) => ~LoopRunning(owner[a])' ]_vars

\* C14: when a batch request settles on an empty or a malformed response
\* body, the transcript is empty, processing has ended and no error is set.
C14_MalformedYieldsEmpty ==
  [][ (response # NoResponse /\ response' = NoResponse
         /\ response.kind \in {"empty", "malformed"}) =>
        /\ transcribeAudioFile(response) = [ok |-> TRUE, segments |-> << >>]
        /\ transcripts' = << >>
        /\ ~processing'.isProcessing
        /\ processing'.error = Null ]_vars

\* C15: the output has the length of the input (empty for empty); an
\* amplitude of -1 or below encodes to -32768, 0 to 0, 1 or above to 32767;
\* every sample encodes as its clamped value does.
C15_ClampAndScale ==
  pcm.done =>
    /\ Len(pcm.output) = Len(pcm.input)
    /\ \A k \in 1..Len(pcm.input) :
         /\ pcm.input[k] <= -AmpDen => pcm.output[k] = -32768
         /\ pcm.input[k] = 0 => pcm.output[k] = 0
         /\ pcm.input[k] >= AmpDen => pcm.output[k] = 32767
         /\ pcm.output[k] = EncodeSample(Clamp(pcm.input[k]))

\* A buffer with an amplitude above 1 and the amplitude -1 was encoded.
C15_Witness ==
  /\ pcm.done
  /\ pcm.input = << AmpDen + (AmpDen \div 2), -AmpDen >>
  /\ pcm.output = << 32767, -32768 >>

InRange(q) == \A k \in 1..Len(q) : -AmpDen <= q[k] /\ q[k] <= AmpDen

Abs(x) == IF x < 0 THEN -x ELSE x

\* The scale the decoder divides an encoded value by.
DecodeScale(e) == IF e < 0 THEN ScaleNeg ELSE ScalePos

\* C16: for amplitudes in [-1, 1] the stored value is the scaled amplitude
\* without its fraction, not wrapped, and decoding it (dividing by the
\* scale of its sign) gives the amplitude back to within one step:
\* |n / AmpDen - e / scale| <= 1 / scale.
C16_RoundTripWithinOneStep ==
  (pcm.done /\ InRange(pcm.input)) =>
    \A k \in 1..Len(pcm.input) :
      LET n == pcm.input[k]
          e == pcm.output[k] IN
      /\ e = Trunc(Scale(n), AmpDen)
      /\ -32768 <= e /\ e <= 32767
      /\ Abs(n * DecodeScale(e) - e * AmpDen) <= AmpDen

\* Amplitudes between two steps, one of each sign, were encoded.
C16_Witness ==
  /\ pcm.done
  /\ pcm.input = << AmpDen - 1, -3 >>
  /\ pcm.output = << 32766, -2 >>

\* C17: a step in which a frame's send fails (the frame is captured for a
\* session that was rejected or is no longer open, or the connection is
\* rejected while frames wait for it) leaves the error, isActive and the
\* capture graph with its refs as they were.
C17_SendFailureSilent ==
  [][ (\E a \in Attempts :
         \/ captured'[a] = captured[a] + 1
              /\ session[a] \in {"rejected", "errored", "ended"}
         \/ session[a] = "pending" /\ session'[a] = "rejected"
              /\ pendingFrames[a] # << >>) =>
        /\ error' = error
        /\ isActive' = isActive
        /\ objVars' = objVars
        /\ << audioContextRef, mediaStreamRef, processorRef, sourceRef >>'
             = << audioContextRef, mediaStreamRef, processorRef, sourceRef >> ]_vars

\* A frame waited for a connection that was rejected and another was
\* captured after the rejection; no error is shown.
C17_Witness ==
  /\ \E a \in Attempts :
        /\ session[a] = "rejected"
        /\ preOpen[a] = 1
        /\ captured[a] = 2
        /\ cur = owner[a]
        /\ error[cur] = Null
        /\ Delivering(a)

LiveSegments(segs) ==
  { k \in 1..Len(segs) : segs[k].speaker = LiveSpeaker }

\* C18: two deliveries of the same texts in the same order that differ only
\* in the turn-completion flags give the same number of segments with the
\* same texts, and all delivered text is in one live segment.
C18_FinalFlagIgnored ==
  /\ Len(replay.a) = Len(replay.b)
  /\ \A k \in 1..Len(replay.a) :
       /\ replay.a[k].text = replay.b[k].text
       /\ replay.a[k].speaker = replay.b[k].speaker
  /\ replay.at > 0 =>
       /\ LiveSegments(replay.a) = { Len(replay.a) }
       /\ replay.a[Len(replay.a)].text
            = Concat(SubSeq(replay.texts, 1, replay.at))

\* Two events were delivered, the first completing a turn in one delivery
\* and not in the other.
C18_Witness ==
  /\ replay.at = 2
  /\ replay.finalsA = << TRUE, FALSE >>
  /\ replay.finalsB = << FALSE, FALSE >>
  /\ Len(replay.a) = 1
  /\ replay.a[1].text = << "Hola", " mundo" >>
  /\ replay.b[1].text = << "Hola", " mundo" >>

\* C19: when getUserMedia rejects for a start attempt, the microphone error
\* is shown on the mounted instance, isActive is not changed (and is false
\* unless another attempt's session is open), and that attempt never has a
\* connection, an audio context, a connected node or a render callback.
C19_MicFailureContained ==
  [][ \A a \in Attempts :
        /\ (pc[a] = "awaitMic" /\ pc'[a] = "failed" /\ stream'[a] = "none") =>
             /\ cur = owner[a] => error'[owner[a]] = MicError
             /\ isActive' = isActive
             /\ (\A b \in Attempts : session[b] # "open")
                  => ~isActive'[owner[a]]
        /\ (pc'[a] = "failed" /\ stream'[a] = "none") =>
             /\ session'[a] = "none"
             /\ ctx'[a] = "none"
             /\ ~procConn'[a] /\ ~srcConn'[a]
             /\ ~raf'[a] ]_vars

\* The microphone was refused to a start on the mounted instance.
C19_Witness ==
  \E a \in Attempts :
    /\ pc[a] = "failed"
    /\ stream[a] = "none"
    /\ cur = owner[a]
    /\ error[cur] = MicError
    /\ ~isActive[cur]
    /\ session[a] = "none"

\* An attempt of instance i is waiting for the microphone or the connection.
Connecting(i) ==
  \E a \in Attempts :
    owner[a] = i /\ (pc[a] = "awaitMic" \/ session[a] = "pending")

\* C20: on the mounted instance isActive holds only while a session is open
\* and its capture graph delivers frames, and when isActive is false and
\* nothing is connecting, no capture graph is alive.
C20_IsActiveReflectsStatus ==
  cur # 0 =>
    /\ isActive[cur] =>
         \E a \in Attempts :
           owner[a] = cur /\ session[a] = "open" /\ Delivering(a)
    /\ (~isActive[cur] /\ ~Connecting(cur)) => NoGraph(cur)

\* The attempts of instance i whose microphone stream, audio context or
\* processor is alive.
Pipelines(i) ==
  { a \in Attempts :
      owner[a] = i /\ (stream[a] = "live" \/ ctx[a] = "running" \/ procConn[a]) }

\* C22: an instance has at most one capture pipeline alive, each of its
\* live objects is the one the instance's ref holds (so that stopSession
\* can release it), and startSession does not start while one is alive.
C22_OnePipeline ==
  [][ /\ \A i \in Insts : Cardinality(Pipelines(i)') <= 1
      /\ \A a \in Attempts :
           /\ stream'[a] = "live" => mediaStreamRef'[owner[a]] = a
           /\ ctx'[a] = "running" => audioContextRef'[owner[a]] = a
           /\ procConn'[a] => processorRef'[owner[a]] = a
      /\ nStarts' = nStarts + 1 => Pipelines(cur) = {} ]_vars

\* Attempt b belongs to an instance that was unmounted (a switch to UPLOAD,
\* which runs stopSession) before the instance of attempt a was mounted.
EarlierSession(b, a) == owner[b] < owner[a]

\* C21: after a mode switch, the first transcription event of a session
\* adds a segment and leaves the segments of the earlier sessions as they
\* are.
C21_FirstEventNewSegment ==
  [][ \A a \in Attempts :
        (a \notin evLog.by /\ a \in evLog'.by /\ cur = owner[a]
           /\ \A b \in evLog.by : EarlierSession(b, a)) =>
          /\ Len(transcripts') = Len(transcripts) + 1
          /\ SubSeq(transcripts', 1, Len(transcripts)) = transcripts ]_vars

\* C23: when onmessage has run on a message whose input transcription is
\* absent or has an empty text, the transcript is as it was; and no segment
\* ever has an empty text.
C23_EmptyTextDropped ==
  [][ /\ (~inbox.handled /\ inbox'.handled
            /\ (~inbox.msg.inputTx \/ inbox.msg.text = << >>)) =>
           transcripts' = transcripts
      /\ \A k \in 1..Len(transcripts') : transcripts'[k].text # << >> ]_vars

\* onmessage has run on a transcription with an empty text while the
\* transcript was empty and the session open.
C23_Witness ==
  /\ inbox.handled
  /\ inbox.from # 0
  /\ inbox.msg.inputTx
  /\ inbox.msg.text = << >>
  /\ session[inbox.from] = "open"
  /\ transcripts = << >>

====
